---- MODULE Spec2Model ----
(***************************************************************************)
(* Reward-claim scripts of the web3 tool set:                              *)
(*   "continuous"  hum/multiWalletClaim.js (runs cycles forever)           *)
(*   "interactive" the interactive multi-wallet script (one pass)          *)
(*   "single"      the single-wallet script hum/clam.js                    *)
(* and the batch-transfer script batchTransfer.js ("batch").                *)
(* The chain client (ethers) is the environment: every awaited chain call  *)
(* either returns or raises, chosen nondeterministically.                  *)
(***************************************************************************)
EXTENDS Integers, Sequences, FiniteSets, TLC

VARIABLES
    script,          \* which script runs
    disk,            \* the ABI, credential and proxy files as main finds them
    config,          \* continuous script: its retry constants as configured
    stopAfter,       \* cycles after which the operator stops the process
    privateKeys,     \* credentials read at startup
    proxies,         \* proxy pool read at startup
    chainAvail,      \* chain state: dailyRewardsAvailable per account
    mainPc,          \* position of main / runClaimCycle
    shuffledKeys,    \* runClaimCycle / main: shuffled credentials
    i,               \* loop index of the claim loop (0-based)
    successCount, failCount, skippedCount,
    cycle,           \* cycles completed (continuous)
    lastRunStats,    \* main: result of the last runClaimCycle
    now,             \* clock value read by calculateNextRunTime
    nextRunTime,     \* main: computed next run time
    waitTimeMs,      \* main: delay requested between cycles
    pauseSeconds,    \* inter-attempt pause requested
    confirm,         \* interactive: answer to the final prompt
    cPc,             \* position inside claimReward
    cArgs,           \* claimReward's arguments
    retryCount,      \* claimReward: retryCount
    currentDelay,    \* claimReward: currentDelay (interactive, single)
    provider,        \* claimReward: provider of the current attempt
    tx,              \* claimReward: submitted transaction being awaited
    cResult,         \* claimReward: returned value
    claim_log,       \* claim_log.txt
    claim_error_log, \* claim_error_log.txt
    calls,           \* observation: claimReward calls started in this cycle
    nReturned,       \* observation: claimReward calls returned in this cycle
    attempts,        \* observation: attempt bodies run in the current call
    backoffs,        \* observation: durations passed to delay() in the call
    att,             \* observation: what happened in the current attempt
    callObs,         \* observation: what happened in the current call
    cyc,             \* observation: what happened in the current cycle
    rpcUrl,          \* batch transfer: answer to the RPC URL prompt
    amountInWei,     \* batch transfer: the amount entered, in wei
    balance,         \* chain state: balance of the sender
    toAddresses,     \* batch transfer: recipients read from the CSV file
    transfers,       \* batch transfer: where each recipient's transfer is
    settled,         \* observation: recipients in the order their transfers ended
    results,         \* batch transfer: what Promise.all resolved to
    resultFile       \* batch transfer: rows of the results CSV written

vars == <<script, disk, config, stopAfter, privateKeys, proxies, chainAvail, mainPc, shuffledKeys, i,
          successCount, failCount, skippedCount, cycle, lastRunStats, now,
          nextRunTime, waitTimeMs, pauseSeconds, confirm, cPc, cArgs,
          retryCount, currentDelay, provider, tx, cResult, claim_log,
          claim_error_log, calls, nReturned, attempts, backoffs, att,
          callObs, cyc, rpcUrl, amountInWei, balance, toAddresses, transfers,
          settled, results, resultFile>>

batchVars == <<rpcUrl, amountInWei, balance, toAddresses, transfers, settled,
               results, resultFile>>

mainVars == <<mainPc, shuffledKeys, i, successCount, failCount, skippedCount,
              cycle, lastRunStats, now, nextRunTime, waitTimeMs,
              pauseSeconds, confirm>>
\* what no step of the claim scripts writes: their inputs, and the state of
\* the batch-transfer script
inputVars == <<script, disk, config, stopAfter, privateKeys, proxies, batchVars>>
cycObsVars == <<calls, nReturned, cyc>>

----------------------------------------------------------------------------
(* Bounds of the model *)

MaxKeys == 2
MaxCycles == 1

\* batch transfer: rows of the recipient file, and the amount in wei
MaxRecipients == 2
MaxAmount == 2

\* the proxy file holds at most as many lines as the credential file may
MaxProxies == MaxKeys

(* Program constants *)

MAX_RETRIES_CONTINUOUS == 10
MAX_RETRIES_INTERACTIVE == 5
MAX_RETRIES_SINGLE == 5
RETRY_DELAY_CONTINUOUS == 0
ESCALATION_FACTOR_CONTINUOUS == 1
RETRY_DELAY_INTERACTIVE == 5000
RETRY_DELAY_SINGLE == 5000
ESCALATION_NUM == 3
ESCALATION_DEN == 2
MIN_PAUSE_CONTINUOUS == 10
MAX_PAUSE_CONTINUOUS == 60
MIN_PAUSE_INTERACTIVE == 30
MAX_PAUSE_INTERACTIVE == 180
DAILY_CHECK_INTERVAL == 1
HOURS_TO_WAIT_AFTER_CLAIM == 23
ETHER_DECIMALS == 18
MS_PER_HOUR == 3600000
HOURS_PER_DAY == 24

\* Math.random() is drawn from RandRes equally spaced values of [0, 1):
\* enough of them for every length of the pause, and so every index of the
\* shuffle, to be drawn
RandRes == MAX_PAUSE_INTERACTIVE - MIN_PAUSE_INTERACTIVE + 1

NULL == "null"

\* let lastRunStats = null: main before its first cycle has returned
NoStats == [stats |-> NULL]

Scripts == {"continuous", "interactive", "single"}
MultiWallet == {"continuous", "interactive"}

MAX_RETRIES ==
    IF script = "continuous" THEN MAX_RETRIES_CONTINUOUS
    ELSE IF script = "interactive" THEN MAX_RETRIES_INTERACTIVE
    ELSE MAX_RETRIES_SINGLE

RETRY_DELAY ==
    IF script = "continuous" THEN config.RETRY_DELAY
    ELSE IF script = "interactive" THEN RETRY_DELAY_INTERACTIVE
    ELSE RETRY_DELAY_SINGLE

MIN_PAUSE == IF script = "continuous" THEN MIN_PAUSE_CONTINUOUS ELSE MIN_PAUSE_INTERACTIVE
MAX_PAUSE == IF script = "continuous" THEN MAX_PAUSE_CONTINUOUS ELSE MAX_PAUSE_INTERACTIVE

----------------------------------------------------------------------------
(* Pure helpers *)

\* Math.random() is a/RandRes for a in Draws, a value of [0, 1).
Draws == 0 .. (RandRes - 1)

\* Math.floor(Math.random() * n)
FloorRandomTimes(a, n) == (a * n) \div RandRes

getRandomNumber(min, max, a) == FloorRandomTimes(a, max - min + 1) + min

\* the swap written as two assignments in sequence: arr[x] is lost
Swap_Overwrite(arr, x, y) == [arr EXCEPT ![x + 1] = arr[y + 1]]

\* [arr[x], arr[y]] = [arr[y], arr[x]] on a 0-based array held as a sequence
Swap(arr, x, y) == [arr EXCEPT ![x + 1] = arr[y + 1], ![y + 1] = arr[x + 1]]

\* the loop body of shuffleArray for index k, then the rest of the loop;
\* draws[k] is the random draw made for index k
RECURSIVE ShuffleLoop(_, _, _)
ShuffleLoop(newArray, k, draws) ==
    IF k > 0
    THEN ShuffleLoop(Swap(newArray, k, FloorRandomTimes(draws[k], k + 1)), k - 1, draws)
    ELSE newArray

shuffleArray(array, draws) == ShuffleLoop(array, Len(array) - 1, draws)

DrawSeqs(n) == [1 .. (IF n > 1 THEN n - 1 ELSE 0) -> Draws]

\* the account address the chain client derives from a private key
Address(key) == <<"addr", key>>

\* decimal digits of a non-negative integer, most significant first
RECURSIVE DecDigits(_)
DecDigits(n) == IF n < 10 THEN <<n>> ELSE Append(DecDigits(n \div 10), n % 10)

\* the digits up to the last non-zero one, at least one digit being kept
StripTrailingZeros(s) ==
    IF Len(s) = 0
    THEN s
    ELSE LET keep == CHOOSE k \in 1 .. Len(s) :
                         /\ \A j \in (k + 1) .. Len(s) : s[j] = 0
                         /\ (k = 1 \/ s[k] # 0)
         IN SubSeq(s, 1, keep)

\* ethers.formatEther: the decimal string of wei / 10^18, as whole and
\* fraction digit strings, trailing zeros of the fraction removed
formatEther(wei) ==
    LET d == DecDigits(wei)
        padded == IF Len(d) <= ETHER_DECIMALS
                  THEN [k \in 1 .. (ETHER_DECIMALS + 1 - Len(d)) |-> 0] \o d
                  ELSE d
        cut == Len(padded) - ETHER_DECIMALS
    IN [whole |-> SubSeq(padded, 1, cut),
        frac |-> StripTrailingZeros(SubSeq(padded, cut + 1, Len(padded)))]

\* the string '0.0'
ZeroEtherString == [whole |-> <<0>>, frac |-> <<0>>]

\* a lowering that reads every answer as y
toLowerCase_AlwaysY(s) == "y"

\* String.prototype.toLowerCase on the answers the model draws
toLowerCase(s) == IF s = "Y" THEN "y" ELSE IF s = "N" THEN "n" ELSE s

\* Date: a wall-clock time with hour granularity
HoursOf(d) == d.day * HOURS_PER_DAY + d.hour
getTime(d) == HoursOf(d) * MS_PER_HOUR

\* Date.prototype.setHours(h) with h possibly >= 24: carries into the day
setHours(d, h) == [day |-> d.day + (h \div HOURS_PER_DAY), hour |-> h % HOURS_PER_DAY]

\* the long wait taken after skips as well as after successes
calculateNextRunTime_CountsSkips(stats, nowDate) ==
    IF stats.successCount + stats.skippedCount > 0
    THEN setHours(nowDate, nowDate.hour + HOURS_TO_WAIT_AFTER_CLAIM)
    ELSE setHours(nowDate, nowDate.hour + DAILY_CHECK_INTERVAL)

calculateNextRunTime(stats, nowDate) ==
    IF stats.successCount > 0
    THEN setHours(nowDate, nowDate.hour + HOURS_TO_WAIT_AFTER_CLAIM)
    ELSE setHours(nowDate, nowDate.hour + DAILY_CHECK_INTERVAL)

\* the delay never escalated
NextDelay_Constant(d) == d

\* Math.floor(currentDelay * ESCALATION_FACTOR), ESCALATION_FACTOR = 1.5
NextDelay(d) == (d * ESCALATION_NUM) \div ESCALATION_DEN

\* the null passed to claimReward when there is no proxy
NoProxy == <<"null">>

\* the pool indexed by k without the modulo: undefined past its end
SelectProxy_NoWrap(k) ==
    IF Len(proxies) > 0
    THEN IF k < Len(proxies) THEN proxies[k + 1] ELSE <<"undefined">>
    ELSE NoProxy

\* proxies.length > 0 ? proxies[k % proxies.length] : null
SelectProxy(k) ==
    IF Len(proxies) > 0 THEN proxies[(k % Len(proxies)) + 1] ELSE NoProxy

----------------------------------------------------------------------------
(* Inputs and the chain *)

Reward == 1
RewardAmounts == {0, Reward}
Answers == {"y", "Y", "n"}
ClockHours == {0, 1, 23}
Clock == {[day |-> 0, hour |-> h] : h \in ClockHours}

SeqMax(s, k) == IF k = 0 THEN 0
                ELSE CHOOSE m \in {s[x] : x \in 1 .. k} : \A x \in 1 .. k : s[x] <= m

\* credential files of up to MaxKeys lines; key names are opaque, so each
\* list is taken with its keys numbered in order of first appearance
KeyLists ==
    {s \in UNION {[1 .. n -> 1 .. MaxKeys] : n \in 0 .. MaxKeys} :
        \A k \in 1 .. Len(s) : s[k] <= 1 + SeqMax(s, k - 1)}

ProxyLists == {[k \in 1 .. n |-> <<"proxy", k>>] : n \in 0 .. MaxProxies}

AccountsOf(keys) == {Address(keys[k]) : k \in 1 .. Len(keys)}

\* a read of dailyRewardsAvailable(address): the chain's value, or it raises
QueryOutcomes(address) ==
    {[raised |-> FALSE, value |-> chainAvail[address]], [raised |-> TRUE, value |-> 0]}

\* the formatted amount compared with '0' instead of '0.0'
hasClaimedToday_ComparesZero(q) ==
    IF q.raised THEN FALSE ELSE formatEther(q.value) = [whole |-> <<0>>, frac |-> <<>>]

\* hasClaimedToday, given the outcome of its dailyRewardsAvailable call
hasClaimedToday(q) ==
    IF q.raised THEN FALSE ELSE formatEther(q.value) = ZeroEtherString

\* the inner try block of the interactive script: true when it returns early
NoRewardsToClaim(q) ==
    IF q.raised THEN FALSE ELSE formatEther(q.value) = ZeroEtherString

createProvider(proxy) == [proxy |-> proxy]

\* the hash the chain gives the claim transaction of an account
TxHash(address) == <<"tx", address, cycle>>

NoAttempt == [query |-> "none", submitted |-> FALSE]
NoCall == [queryOk |-> FALSE, otherFailed |-> FALSE, submitted |-> FALSE,
           outcome |-> "none", logsAtStart |-> <<0, 0>>]
NoCycle == [clean |-> TRUE, confirmed |-> 0, withReward |-> 0, failures |-> 0,
            skips |-> 0, pauses |-> 0, submitted |-> FALSE, zeroAtStart |-> FALSE,
            logsAtStart |-> <<0, 0>>]
NoProvider == [proxy |-> <<"none">>]

\* the retry constants as the source sets them
SourceConfig == [RETRY_DELAY |-> RETRY_DELAY_CONTINUOUS,
                 ESCALATION_FACTOR |-> ESCALATION_FACTOR_CONTINUOUS]

\* the claim scripts take no RPC URL or amount at a prompt and read no balance
NoBatchRun == rpcUrl = "" /\ amountInWei = 0 /\ balance = 0

\* a file main can read, holding these lines
ReadableFile(lines) == [status |-> "ok", lines |-> lines]

\* a file main cannot use: absent, or present and failing to read or parse
UnusableFile(status) == [status |-> status, lines |-> <<>>]

\* the locals of main and claimReward, the logs and the observations before
\* main has done anything
InitLocals ==
    /\ shuffledKeys = <<>>
    /\ i = 0
    /\ successCount = 0 /\ failCount = 0 /\ skippedCount = 0
    /\ cycle = 0
    /\ lastRunStats = NoStats
    /\ now = NULL /\ nextRunTime = NULL /\ waitTimeMs = 0
    /\ pauseSeconds = 0
    /\ confirm = NULL
    /\ cPc = "idle"
    /\ cArgs = NULL
    /\ retryCount = 0
    /\ currentDelay = 0
    /\ provider = NoProvider
    /\ tx = NULL
    /\ cResult = NULL
    /\ claim_log = <<>>
    /\ claim_error_log = <<>>
    /\ calls = <<>>
    /\ nReturned = 0
    /\ attempts = 0
    /\ backoffs = <<>>
    /\ att = NoAttempt
    /\ toAddresses = <<>>
    /\ transfers = <<>>
    /\ settled = <<>>
    /\ results = <<>>
    /\ resultFile = <<>>
    /\ callObs = NoCall
    /\ cyc = NoCycle

\* the state once main has read its files: every script, every credential
\* list and proxy pool, the constants of the source, one cycle observed
Init ==
    /\ script \in Scripts
    /\ privateKeys \in (IF script = "single" THEN {<<1>>} ELSE KeyLists)
    /\ proxies \in (IF script = "single" THEN {<<>>} ELSE ProxyLists)
    /\ disk = [abi |-> ReadableFile(<<>>), keys |-> ReadableFile(privateKeys),
               proxies |-> ReadableFile(proxies)]
    /\ config = SourceConfig
    /\ stopAfter = MaxCycles
    /\ chainAvail \in [AccountsOf(privateKeys) -> RewardAmounts]
    /\ mainPc = "start"
    /\ InitLocals
    /\ NoBatchRun

----------------------------------------------------------------------------
(* claimReward *)

walletAddress == Address(cArgs.privateKey)

\* the loop condition written with < instead of <=
LoopGuard_Strict(rc) == rc < MAX_RETRIES

\* while (retryCount <= MAX_RETRIES)
LoopGuard(rc) == rc <= MAX_RETRIES

\* if (retryCount >= MAX_RETRIES) in the catch block
RetriesExhausted(rc) == rc >= MAX_RETRIES

\* the value claimReward returns: a boolean in the multi-wallet scripts,
\* nothing in the single-wallet script
ReturnValue(b) == IF script = "single" THEN "undefined" ELSE IF b THEN "true" ELSE "false"

\* the error line written before the retry-limit check: on every failure
Catch_LogsEveryFailure ==
    /\ claim_error_log' = Append(claim_error_log,
            [walletIndex |-> cArgs.walletIndex,
             totalWallets |-> cArgs.totalWallets,
             retryCount |-> retryCount])
    /\ IF RetriesExhausted(retryCount)
       THEN /\ cPc' = "returned"
            /\ cResult' = ReturnValue(FALSE)
            /\ nReturned' = nReturned + 1
            /\ UNCHANGED <<retryCount, backoffs>>
       ELSE /\ retryCount' = retryCount + 1
            /\ IF script = "continuous"
               THEN IF RETRY_DELAY > 0
                    THEN /\ backoffs' = Append(backoffs, RETRY_DELAY)
                         /\ cPc' = "backoff"
                    ELSE /\ cPc' = "try"
                         /\ UNCHANGED backoffs
               ELSE /\ backoffs' = Append(backoffs, currentDelay)
                    /\ cPc' = "backoff"
            /\ UNCHANGED <<cResult, nReturned>>

\* the catch block of the retry loop
Catch ==
    IF RetriesExhausted(retryCount)
    THEN /\ claim_error_log' = Append(claim_error_log,
                [walletIndex |-> cArgs.walletIndex,
                 totalWallets |-> cArgs.totalWallets,
                 retryCount |-> retryCount])
         /\ cPc' = "returned"
         /\ cResult' = ReturnValue(FALSE)
         /\ nReturned' = nReturned + 1
         /\ UNCHANGED <<retryCount, backoffs>>
    ELSE /\ retryCount' = retryCount + 1
         /\ IF script = "continuous"
            THEN IF RETRY_DELAY > 0
                 THEN /\ backoffs' = Append(backoffs, RETRY_DELAY)
                      /\ cPc' = "backoff"
                 ELSE /\ cPc' = "try"
                      /\ UNCHANGED backoffs
            ELSE /\ backoffs' = Append(backoffs, currentDelay)
                 /\ cPc' = "backoff"
         /\ UNCHANGED <<claim_error_log, cResult, nReturned>>

CatchObs(kind) ==
    /\ callObs' = [callObs EXCEPT
            !.otherFailed = @ \/ (kind = "other"),
            !.outcome = IF RetriesExhausted(retryCount) THEN "failure" ELSE @]
    /\ cyc' = [cyc EXCEPT !.clean = FALSE,
            !.failures = IF RetriesExhausted(retryCount) THEN @ + 1 ELSE @]

BeginAttempt ==
    /\ cPc = "try"
    /\ IF LoopGuard(retryCount)
       THEN /\ provider' = createProvider(cArgs.proxy)
            /\ attempts' = attempts + 1
            /\ att' = NoAttempt
            /\ cPc' = "check"
            /\ UNCHANGED <<cResult, nReturned, callObs, cyc>>
       ELSE /\ cPc' = "returned"
            /\ cResult' = ReturnValue(FALSE)
            /\ nReturned' = nReturned + 1
            /\ callObs' = [callObs EXCEPT !.outcome = "failure"]
            /\ cyc' = [cyc EXCEPT !.failures = @ + 1]
            /\ UNCHANGED <<provider, attempts, att>>
    /\ UNCHANGED <<inputVars, chainAvail, mainVars, cArgs, retryCount,
                   currentDelay, tx, claim_log, claim_error_log, calls,
                   backoffs>>

\* no already-claimed return: every attempt goes on to submit
SkipsWallet_Never(q) == FALSE

\* whether the attempt returns true without submitting, given the outcome
\* of its reward-availability query
SkipsWallet(q) ==
    IF script = "continuous" THEN hasClaimedToday(q)
    ELSE IF script = "interactive" THEN NoRewardsToClaim(q)
    ELSE FALSE

\* a raise of the availability query taken to the catch block of the retry
\* loop, in every script
CheckRewards_QueryFailureRetries ==
    /\ cPc = "check"
    /\ \E q \in QueryOutcomes(walletAddress) :
        /\ att' = [att EXCEPT !.query =
                IF q.raised THEN "raised"
                ELSE IF q.value = 0 THEN "zero" ELSE "positive"]
        /\ IF q.raised
           THEN Catch /\ CatchObs("query")
           ELSE /\ IF SkipsWallet(q)
                   THEN /\ cPc' = "returned"
                        /\ cResult' = ReturnValue(TRUE)
                        /\ nReturned' = nReturned + 1
                        /\ callObs' = [callObs EXCEPT !.queryOk = TRUE, !.outcome = "skipped"]
                        /\ cyc' = [cyc EXCEPT !.skips = @ + 1]
                   ELSE /\ cPc' = IF script = "continuous" THEN "requery" ELSE "fee"
                        /\ callObs' = [callObs EXCEPT !.queryOk = TRUE]
                        /\ UNCHANGED <<cResult, nReturned, cyc>>
                /\ UNCHANGED <<retryCount, backoffs, claim_error_log>>
    /\ UNCHANGED <<inputVars, chainAvail, mainVars, cArgs, currentDelay,
                   provider, tx, claim_log, calls, attempts>>

\* the skip recorded in the success log like a claim, without a hash
CheckRewards_LogsSkip ==
    /\ cPc = "check"
    /\ \E q \in QueryOutcomes(walletAddress) :
        /\ att' = [att EXCEPT !.query =
                IF q.raised THEN "raised"
                ELSE IF q.value = 0 THEN "zero" ELSE "positive"]
        /\ IF SkipsWallet(q)
           THEN /\ cPc' = "returned"
                /\ cResult' = ReturnValue(TRUE)
                /\ nReturned' = nReturned + 1
                /\ callObs' = [callObs EXCEPT !.queryOk = TRUE, !.outcome = "skipped"]
                /\ cyc' = [cyc EXCEPT !.skips = @ + 1]
                /\ claim_log' = Append(claim_log,
                        [walletIndex |-> cArgs.walletIndex,
                         totalWallets |-> cArgs.totalWallets,
                         address |-> walletAddress,
                         hash |-> NULL])
           ELSE /\ cPc' = IF script = "continuous" THEN "requery" ELSE "fee"
                /\ callObs' = [callObs EXCEPT !.queryOk = @ \/ ~q.raised]
                /\ cyc' = [cyc EXCEPT !.clean = @ /\ ~q.raised]
                /\ UNCHANGED <<cResult, nReturned, claim_log>>
    /\ UNCHANGED <<inputVars, chainAvail, mainVars, cArgs, retryCount,
                   currentDelay, provider, tx, claim_error_log,
                   calls, attempts, backoffs>>

\* The reward-availability check of an attempt: hasClaimedToday in the
\* continuous script, the inner try block in the other two.
CheckRewards ==
    /\ cPc = "check"
    /\ \E q \in QueryOutcomes(walletAddress) :
        /\ att' = [att EXCEPT !.query =
                IF q.raised THEN "raised"
                ELSE IF q.value = 0 THEN "zero" ELSE "positive"]
        /\ IF SkipsWallet(q)
           THEN /\ cPc' = "returned"
                /\ cResult' = ReturnValue(TRUE)
                /\ nReturned' = nReturned + 1
                /\ callObs' = [callObs EXCEPT !.queryOk = TRUE, !.outcome = "skipped"]
                /\ cyc' = [cyc EXCEPT !.skips = @ + 1]
           ELSE /\ cPc' = IF script = "continuous" THEN "requery" ELSE "fee"
                /\ callObs' = [callObs EXCEPT !.queryOk = @ \/ ~q.raised]
                /\ cyc' = [cyc EXCEPT !.clean = @ /\ ~q.raised]
                /\ UNCHANGED <<cResult, nReturned>>
    /\ UNCHANGED <<inputVars, chainAvail, mainVars, cArgs, retryCount,
                   currentDelay, provider, tx, claim_log, claim_error_log,
                   calls, attempts, backoffs>>

\* continuous script: the second dailyRewardsAvailable call, outside
\* hasClaimedToday and inside the retry loop's try block
QueryRewards ==
    /\ script = "continuous"
    /\ cPc = "requery"
    /\ \E q \in QueryOutcomes(walletAddress) :
        IF q.raised
        THEN Catch /\ CatchObs("query")
        ELSE /\ cPc' = "fee"
             /\ callObs' = [callObs EXCEPT !.queryOk = TRUE]
             /\ UNCHANGED <<retryCount, backoffs, claim_error_log, cResult,
                            nReturned, cyc>>
    /\ UNCHANGED <<inputVars, chainAvail, mainVars, cArgs, currentDelay,
                   provider, tx, claim_log, calls, attempts, att>>

GetFeeData ==
    /\ cPc = "fee"
    /\ \/ /\ cPc' = "submit"
          /\ UNCHANGED <<retryCount, backoffs, claim_error_log, cResult,
                         nReturned, callObs, cyc>>
       \/ Catch /\ CatchObs("other")
    /\ UNCHANGED <<inputVars, chainAvail, mainVars, cArgs, currentDelay,
                   provider, tx, claim_log, calls, attempts, att>>

\* contract.claimReward({...}): the submission call
SubmitClaim ==
    /\ cPc = "submit"
    /\ att' = [att EXCEPT !.submitted = TRUE]
    /\ \/ /\ cPc' = "wait"
          /\ tx' = [from |-> walletAddress, hash |-> TxHash(walletAddress)]
          /\ callObs' = [callObs EXCEPT !.submitted = TRUE]
          /\ cyc' = [cyc EXCEPT !.submitted = TRUE]
          /\ UNCHANGED <<retryCount, backoffs, claim_error_log, cResult,
                         nReturned>>
       \/ /\ Catch
          /\ callObs' = [callObs EXCEPT !.submitted = TRUE, !.otherFailed = TRUE,
                !.outcome = IF RetriesExhausted(retryCount) THEN "failure" ELSE @]
          /\ cyc' = [cyc EXCEPT !.clean = FALSE, !.submitted = TRUE,
                !.failures = IF RetriesExhausted(retryCount) THEN @ + 1 ELSE @]
          /\ UNCHANGED tx
    /\ UNCHANGED <<inputVars, chainAvail, mainVars, cArgs, currentDelay,
                   provider, claim_log, calls, attempts>>

\* the success line written from tx.hash before tx.wait() is awaited
WaitConfirm_LogsBeforeWait ==
    /\ cPc = "wait"
    /\ claim_log' = Append(claim_log,
            [walletIndex |-> cArgs.walletIndex,
             totalWallets |-> cArgs.totalWallets,
             address |-> walletAddress,
             hash |-> tx.hash])
    /\ \/ /\ chainAvail' = [chainAvail EXCEPT ![tx.from] = 0]
          /\ cPc' = "returned"
          /\ cResult' = ReturnValue(TRUE)
          /\ nReturned' = nReturned + 1
          /\ callObs' = [callObs EXCEPT !.outcome = "success"]
          /\ cyc' = [cyc EXCEPT !.confirmed = @ + 1]
          /\ UNCHANGED <<retryCount, backoffs, claim_error_log>>
       \/ /\ Catch /\ CatchObs("other")
          /\ UNCHANGED chainAvail
       \/ /\ chainAvail[tx.from] # 0
          /\ Catch /\ CatchObs("other")
          /\ chainAvail' = [chainAvail EXCEPT ![tx.from] = 0]
    /\ tx' = NULL
    /\ UNCHANGED <<inputVars, mainVars, cArgs, currentDelay, provider, calls,
                   attempts, att>>

\* tx.wait(), then the success log
WaitConfirm ==
    /\ cPc = "wait"
    /\ \/ /\ chainAvail' = [chainAvail EXCEPT ![tx.from] = 0]
          /\ claim_log' = Append(claim_log,
                [walletIndex |-> cArgs.walletIndex,
                 totalWallets |-> cArgs.totalWallets,
                 address |-> walletAddress,
                 hash |-> tx.hash])
          /\ cPc' = "returned"
          /\ cResult' = ReturnValue(TRUE)
          /\ nReturned' = nReturned + 1
          /\ callObs' = [callObs EXCEPT !.outcome = "success"]
          /\ cyc' = [cyc EXCEPT !.confirmed = @ + 1]
          /\ UNCHANGED <<retryCount, backoffs, claim_error_log>>
       \/ \* the wait fails and the transaction was not included
          /\ Catch /\ CatchObs("other")
          /\ UNCHANGED <<chainAvail, claim_log>>
       \/ \* the wait fails although the chain did include the transaction
          /\ chainAvail[tx.from] # 0
          /\ Catch /\ CatchObs("other")
          /\ chainAvail' = [chainAvail EXCEPT ![tx.from] = 0]
          /\ UNCHANGED claim_log
    /\ tx' = NULL
    /\ UNCHANGED <<inputVars, mainVars, cArgs, currentDelay, provider, calls,
                   attempts, att>>

\* the retry resuming the failed attempt at its submission step
BackoffElapsed_ResumesMidAttempt ==
    /\ cPc = "backoff"
    /\ cPc' = "submit"
    /\ currentDelay' = IF script = "continuous" THEN currentDelay
                       ELSE NextDelay(currentDelay)
    /\ UNCHANGED <<inputVars, chainAvail, mainVars, cArgs, retryCount, provider,
                   tx, cResult, claim_log, claim_error_log, cycObsVars,
                   attempts, backoffs, att, callObs>>

\* await delay(currentDelay), then the escalation of the delay
BackoffElapsed ==
    /\ cPc = "backoff"
    /\ cPc' = "try"
    /\ currentDelay' = IF script = "continuous" THEN currentDelay
                       ELSE NextDelay(currentDelay)
    /\ UNCHANGED <<inputVars, chainAvail, mainVars, cArgs, retryCount, provider,
                   tx, cResult, claim_log, claim_error_log, cycObsVars,
                   attempts, backoffs, att, callObs>>

----------------------------------------------------------------------------
(* main and runClaimCycle *)

\* claimReward called without await: the caller goes on at once
Awaited_FireAndForget == TRUE

\* `await claimReward(...)`: the caller goes on once the call has returned
Awaited == cPc = "returned"

\* the returned value never tested: every call taken as a success
Truthy_Always(r) == TRUE

\* if (success)
Truthy(r) == r = "true"

StartCall(key, proxy, walletIndex, totalWallets) ==
    /\ cPc' = "try"
    /\ cArgs' = [privateKey |-> key, proxy |-> proxy,
                 walletIndex |-> walletIndex, totalWallets |-> totalWallets]
    /\ retryCount' = 0
    /\ currentDelay' = RETRY_DELAY
    /\ provider' = NoProvider
    /\ tx' = NULL
    /\ cResult' = NULL
    /\ attempts' = 0
    /\ backoffs' = <<>>
    /\ att' = NoAttempt
    /\ callObs' = [NoCall EXCEPT !.logsAtStart = <<Len(claim_log), Len(claim_error_log)>>]

\* the observations of a cycle at its start: whether every account of the
\* credentials has nothing left to claim, and the lengths of the two logs
CycleStarts ==
    [NoCycle EXCEPT
        !.zeroAtStart = \A a \in DOMAIN chainAvail : chainAvail[a] = 0,
        !.logsAtStart = <<Len(claim_log), Len(claim_error_log)>>]

claimIdle == <<cPc, cArgs, retryCount, currentDelay, provider, tx, cResult,
               attempts, backoffs, att, callObs>>

\* the shuffle done on main's own array instead of a copy
StartCycle_ShufflesInPlace ==
    /\ script = "continuous"
    /\ mainPc = "start"
    /\ cycle < stopAfter
    /\ \E draws \in DrawSeqs(Len(privateKeys)) :
        /\ shuffledKeys' = shuffleArray(privateKeys, draws)
        /\ privateKeys' = shuffledKeys'
    /\ successCount' = 0 /\ failCount' = 0 /\ skippedCount' = 0
    /\ i' = 0
    /\ mainPc' = "loop"
    /\ cyc' = CycleStarts
    /\ UNCHANGED <<script, disk, config, stopAfter, proxies, batchVars, chainAvail, cycle,
                   lastRunStats, now, nextRunTime, waitTimeMs, pauseSeconds,
                   confirm, claimIdle, claim_log, claim_error_log, calls,
                   nReturned>>

\* continuous script: runClaimCycle up to its loop
StartCycle ==
    /\ script = "continuous"
    /\ mainPc = "start"
    /\ cycle < stopAfter
    /\ \E draws \in DrawSeqs(Len(privateKeys)) :
        shuffledKeys' = shuffleArray(privateKeys, draws)
    /\ successCount' = 0 /\ failCount' = 0 /\ skippedCount' = 0
    /\ i' = 0
    /\ mainPc' = "loop"
    /\ cyc' = CycleStarts
    /\ UNCHANGED <<inputVars, chainAvail, cycle, lastRunStats, now, nextRunTime,
                   waitTimeMs, pauseSeconds, confirm, claimIdle, claim_log,
                   claim_error_log, calls, nReturned>>

\* interactive script: main up to the confirmation prompt
ShuffleKeys ==
    /\ script = "interactive"
    /\ mainPc = "start"
    /\ \E draws \in DrawSeqs(Len(privateKeys)) :
        shuffledKeys' = shuffleArray(privateKeys, draws)
    /\ mainPc' = "confirm"
    /\ cyc' = CycleStarts
    /\ UNCHANGED <<inputVars, chainAvail, i, successCount, failCount,
                   skippedCount, cycle, lastRunStats, now, nextRunTime,
                   waitTimeMs, pauseSeconds, confirm, claimIdle, claim_log,
                   claim_error_log, calls, nReturned>>

\* interactive script: the answer to the final prompt
Confirm ==
    /\ script = "interactive"
    /\ mainPc = "confirm"
    /\ \E answer \in Answers :
        /\ confirm' = answer
        /\ mainPc' = IF toLowerCase(answer) # "y" THEN "done" ELSE "loop"
    /\ UNCHANGED <<inputVars, chainAvail, shuffledKeys, i, successCount,
                   failCount, skippedCount, cycle, lastRunStats, now,
                   nextRunTime, waitTimeMs, pauseSeconds, claimIdle, claim_log,
                   claim_error_log, cycObsVars>>

\* single-wallet script: main calls claimReward(privateKey, rpcUrl, abi)
SingleMain ==
    /\ script = "single"
    /\ mainPc = "start"
    /\ StartCall(privateKeys[1], NoProxy, NULL, NULL)
    /\ calls' = Append(calls, [privateKey |-> privateKeys[1], proxy |-> NoProxy])
    /\ cyc' = [cyc EXCEPT !.withReward =
                    IF chainAvail[Address(privateKeys[1])] > 0 THEN 1 ELSE 0]
    /\ mainPc' = "awaitClaim"
    /\ UNCHANGED <<inputVars, chainAvail, shuffledKeys, i, successCount,
                   failCount, skippedCount, cycle, lastRunStats, now,
                   nextRunTime, waitTimeMs, pauseSeconds, confirm, claim_log,
                   claim_error_log, nReturned>>

\* one iteration of the claim loop up to `await claimReward(...)`
LoopCall ==
    /\ script \in MultiWallet
    /\ mainPc = "loop"
    /\ i < Len(shuffledKeys)
    /\ LET privateKey == shuffledKeys[i + 1]
           proxy == SelectProxy(i)
       IN /\ StartCall(privateKey, proxy, i, Len(shuffledKeys))
          /\ calls' = Append(calls, [privateKey |-> privateKey, proxy |-> proxy])
          /\ cyc' = [cyc EXCEPT !.withReward =
                        IF chainAvail[Address(privateKey)] > 0 THEN @ + 1 ELSE @]
    /\ mainPc' = "awaitClaim"
    /\ UNCHANGED <<inputVars, chainAvail, shuffledKeys, i, successCount,
                   failCount, skippedCount, cycle, lastRunStats, now,
                   nextRunTime, waitTimeMs, pauseSeconds, confirm, claim_log,
                   claim_error_log, nReturned>>

\* the pause taken after every wallet, the last one included
AfterWallet_PausesAfterLast ==
    /\ \E a \in Draws : pauseSeconds' = getRandomNumber(MIN_PAUSE, MAX_PAUSE, a)
    /\ mainPc' = "pause"
    /\ i' = i

\* if (i < shuffledKeys.length - 1) pause, else go on to the next iteration
AfterWallet ==
    IF i < Len(shuffledKeys) - 1
    THEN /\ \E a \in Draws : pauseSeconds' = getRandomNumber(MIN_PAUSE, MAX_PAUSE, a)
         /\ mainPc' = "pause"
         /\ i' = i
    ELSE /\ pauseSeconds' = 0
         /\ mainPc' = "loop"
         /\ i' = i + 1

\* claimReward has returned: its locals are gone, the caller tallies
ClaimReturned ==
    /\ mainPc = "awaitClaim"
    /\ Awaited
    /\ cPc' = "idle"
    /\ cArgs' = NULL /\ retryCount' = 0 /\ currentDelay' = 0
    /\ provider' = NoProvider /\ tx' = NULL /\ cResult' = NULL
    /\ attempts' = 0 /\ backoffs' = <<>> /\ att' = NoAttempt /\ callObs' = NoCall
    /\ IF script = "single"
       THEN /\ mainPc' = "done"
            /\ UNCHANGED <<i, successCount, failCount, pauseSeconds>>
       ELSE IF script = "continuous"
       THEN IF Truthy(cResult)
            THEN /\ mainPc' = "postCheck"
                 /\ UNCHANGED <<i, successCount, failCount, pauseSeconds>>
            ELSE /\ failCount' = failCount + 1
                 /\ AfterWallet
                 /\ UNCHANGED successCount
       ELSE /\ IF Truthy(cResult)
               THEN successCount' = successCount + 1 /\ UNCHANGED failCount
               ELSE failCount' = failCount + 1 /\ UNCHANGED successCount
            /\ AfterWallet
    /\ UNCHANGED <<inputVars, chainAvail, shuffledKeys, skippedCount, cycle,
                   lastRunStats, now, nextRunTime, waitTimeMs, confirm,
                   claim_log, claim_error_log, cycObsVars>>

\* a call found claimed counted as skipped and as a success
PostCheck_TalliesTwice ==
    /\ script = "continuous"
    /\ mainPc = "postCheck"
    /\ \E q \in QueryOutcomes(Address(shuffledKeys[i + 1])) :
        /\ IF hasClaimedToday(q)
           THEN skippedCount' = skippedCount + 1 /\ successCount' = successCount + 1
           ELSE successCount' = successCount + 1 /\ UNCHANGED skippedCount
        /\ cyc' = [cyc EXCEPT !.clean = @ /\ ~q.raised]
    /\ AfterWallet
    /\ UNCHANGED <<inputVars, chainAvail, shuffledKeys, failCount, cycle,
                   lastRunStats, now, nextRunTime, waitTimeMs, confirm,
                   claimIdle, claim_log, claim_error_log, calls, nReturned>>

\* continuous script: after a true return, hasClaimedToday decides the tally
PostCheck ==
    /\ script = "continuous"
    /\ mainPc = "postCheck"
    /\ \E q \in QueryOutcomes(Address(shuffledKeys[i + 1])) :
        /\ IF hasClaimedToday(q)
           THEN skippedCount' = skippedCount + 1 /\ UNCHANGED successCount
           ELSE successCount' = successCount + 1 /\ UNCHANGED skippedCount
        /\ cyc' = [cyc EXCEPT !.clean = @ /\ ~q.raised]
    /\ AfterWallet
    /\ UNCHANGED <<inputVars, chainAvail, shuffledKeys, failCount, cycle,
                   lastRunStats, now, nextRunTime, waitTimeMs, confirm,
                   claimIdle, claim_log, claim_error_log, calls, nReturned>>

\* await delay(pauseSeconds * 1000), then i++
PauseElapsed ==
    /\ mainPc = "pause"
    /\ mainPc' = "loop"
    /\ i' = i + 1
    /\ pauseSeconds' = 0
    /\ cyc' = [cyc EXCEPT !.pauses = @ + 1]
    /\ UNCHANGED <<inputVars, chainAvail, shuffledKeys, successCount, failCount,
                   skippedCount, cycle, lastRunStats, now, nextRunTime,
                   waitTimeMs, confirm, claimIdle, claim_log, claim_error_log,
                   calls, nReturned>>

\* the loop is over: runClaimCycle returns its stats and main computes the
\* wait (continuous); main prints the totals and ends (interactive)
EndCycle ==
    /\ script \in MultiWallet
    /\ mainPc = "loop"
    /\ i >= Len(shuffledKeys)
    /\ IF script = "continuous"
       THEN /\ mainPc' = "waiting"
            /\ cycle' = cycle + 1
            /\ lastRunStats' = [successCount |-> successCount,
                                skippedCount |-> skippedCount,
                                failCount |-> failCount,
                                totalWallets |-> Len(shuffledKeys)]
            /\ \E t \in Clock :
                /\ now' = t
                /\ nextRunTime' = calculateNextRunTime(lastRunStats', t)
                /\ waitTimeMs' = getTime(nextRunTime') - getTime(t)
       ELSE /\ mainPc' = "done"
            /\ UNCHANGED <<lastRunStats, now, nextRunTime, waitTimeMs, cycle>>
    /\ UNCHANGED <<inputVars, chainAvail, shuffledKeys, i, successCount,
                   failCount, skippedCount, pauseSeconds, confirm, claimIdle,
                   claim_log, claim_error_log, cycObsVars>>

\* main returning after the first cycle instead of looping
WaitElapsed_Exits ==
    /\ mainPc = "waiting"
    /\ mainPc' = "done"
    /\ UNCHANGED <<inputVars, chainAvail, shuffledKeys, i, successCount,
                   failCount, skippedCount, cycle, lastRunStats, now,
                   nextRunTime, waitTimeMs, pauseSeconds, confirm, claimIdle,
                   claim_log, claim_error_log, cycObsVars>>

\* await delay(waitTimeMs): the next iteration of main's while loop
WaitElapsed ==
    /\ mainPc = "waiting"
    /\ mainPc' = "start"
    /\ now' = NULL /\ nextRunTime' = NULL /\ waitTimeMs' = 0
    /\ shuffledKeys' = <<>> /\ i' = 0
    /\ successCount' = 0 /\ failCount' = 0 /\ skippedCount' = 0
    /\ calls' = <<>> /\ nReturned' = 0 /\ cyc' = NoCycle
    /\ UNCHANGED <<inputVars, chainAvail, cycle, lastRunStats, pauseSeconds,
                   confirm, claimIdle, claim_log, claim_error_log>>

\* the chain: while the script waits, a new day makes rewards available
NewDay ==
    /\ mainPc = "waiting"
    /\ \E a \in DOMAIN chainAvail :
        /\ chainAvail[a] = 0
        /\ chainAvail' = [chainAvail EXCEPT ![a] = Reward]
    /\ UNCHANGED <<inputVars, mainVars, claimIdle, claim_log, claim_error_log,
                   cycObsVars>>

Next ==
    \/ StartCycle
    \/ ShuffleKeys
    \/ Confirm
    \/ SingleMain
    \/ LoopCall
    \/ ClaimReturned
    \/ PostCheck
    \/ PauseElapsed
    \/ EndCycle
    \/ WaitElapsed
    \/ NewDay
    \/ BeginAttempt
    \/ CheckRewards
    \/ QueryRewards
    \/ GetFeeData
    \/ SubmitClaim
    \/ WaitConfirm
    \/ BackoffElapsed

Spec == Init /\ [][Next]_vars

----------------------------------------------------------------------------
(* The continuous script over several cycles *)

\* the continuous script with the constants of the source and no proxy pool,
\* followed for up to one cycle more than in Spec: the runs make at most
\* MaxKeys * MaxCycles calls of claimReward, in one cycle or spread over two
InitRepeat ==
    /\ script = "continuous"
    /\ stopAfter \in 1 .. (MaxCycles + 1)
    /\ privateKeys \in {k \in KeyLists : Len(k) * stopAfter <= MaxKeys * MaxCycles}
    /\ proxies = <<>>
    /\ disk = [abi |-> ReadableFile(<<>>), keys |-> ReadableFile(privateKeys),
               proxies |-> UnusableFile("missing")]
    /\ config = SourceConfig
    /\ chainAvail \in [AccountsOf(privateKeys) -> RewardAmounts]
    /\ mainPc = "start"
    /\ InitLocals
    /\ NoBatchRun

\* a step of the script itself: what the event loop runs once the awaited
\* chain call has settled or the awaited timer has fired
ContinuousStep ==
    \/ StartCycle
    \/ LoopCall
    \/ ClaimReturned
    \/ PostCheck
    \/ PauseElapsed
    \/ EndCycle
    \/ WaitElapsed
    \/ BeginAttempt
    \/ CheckRewards
    \/ QueryRewards
    \/ GetFeeData
    \/ SubmitClaim
    \/ WaitConfirm

NextRepeat == ContinuousStep \/ NewDay

\* every awaited chain call settles and every timer fires
SpecRepeat == InitRepeat /\ [][NextRepeat]_vars /\ WF_vars(ContinuousStep)

----------------------------------------------------------------------------
(* The multi-wallet scripts with every chain call settling *)

InitCall ==
    /\ script \in MultiWallet
    /\ privateKeys \in KeyLists
    /\ proxies = <<>>
    /\ disk = [abi |-> ReadableFile(<<>>), keys |-> ReadableFile(privateKeys),
               proxies |-> UnusableFile("missing")]
    /\ config = SourceConfig
    /\ stopAfter = MaxCycles
    /\ chainAvail \in [AccountsOf(privateKeys) -> RewardAmounts]
    /\ mainPc = "start"
    /\ InitLocals
    /\ NoBatchRun

\* a step of claimReward: the awaited chain call has returned or raised, or
\* the awaited delay has elapsed
ClaimStep ==
    \/ BeginAttempt
    \/ CheckRewards
    \/ QueryRewards
    \/ GetFeeData
    \/ SubmitClaim
    \/ WaitConfirm
    \/ BackoffElapsed

\* a step of main or runClaimCycle
MainStep ==
    \/ StartCycle
    \/ ShuffleKeys
    \/ Confirm
    \/ LoopCall
    \/ ClaimReturned
    \/ PostCheck
    \/ PauseElapsed
    \/ EndCycle
    \/ WaitElapsed

NextCall == ClaimStep \/ MainStep \/ NewDay

\* every chain call awaited by claimReward settles and its timers fire
SpecCall == InitCall /\ [][NextCall]_vars /\ WF_vars(ClaimStep)

----------------------------------------------------------------------------
(* The continuous script with its retry constants configured *)

\* values the two retry constants at the top of the script are set to: those
\* of the source, the delay of the other scripts, and the next whole factor
RetryDelays == {RETRY_DELAY_CONTINUOUS, RETRY_DELAY_INTERACTIVE}
EscalationFactors == {ESCALATION_FACTOR_CONTINUOUS, ESCALATION_FACTOR_CONTINUOUS + 1}

InitConfigured ==
    /\ script = "continuous"
    /\ config \in [RETRY_DELAY : RetryDelays, ESCALATION_FACTOR : EscalationFactors]
    /\ privateKeys \in KeyLists
    /\ proxies = <<>>
    /\ disk = [abi |-> ReadableFile(<<>>), keys |-> ReadableFile(privateKeys),
               proxies |-> UnusableFile("missing")]
    /\ stopAfter = MaxCycles
    /\ chainAvail \in [AccountsOf(privateKeys) -> RewardAmounts]
    /\ mainPc = "start"
    /\ InitLocals
    /\ NoBatchRun

NextConfigured == ContinuousStep \/ BackoffElapsed \/ NewDay

SpecConfigured == InitConfigured /\ [][NextConfigured]_vars

----------------------------------------------------------------------------
(* Startup of the multi-wallet scripts *)

\* a credential file that cannot be read taken as one without lines
readPrivateKeys_Lenient(file) == [raised |-> FALSE, value |-> file.lines]

\* readPrivateKeys: the non-empty trimmed lines, or a raise
readPrivateKeys(file) ==
    IF file.status = "ok"
    THEN [raised |-> FALSE, value |-> file.lines]
    ELSE [raised |-> TRUE, value |-> <<>>]

\* readContractABI: readFileSync and JSON.parse, either of which may raise
readContractABI(file) ==
    IF file.status = "ok"
    THEN [raised |-> FALSE, value |-> file.lines]
    ELSE [raised |-> TRUE, value |-> <<>>]

\* readProxies: [] when the file does not exist or cannot be read
readProxies(file) == IF file.status = "ok" THEN file.lines ELSE <<>>

\* the ways a file can fail to load: absent, present but not readable, and
\* for the ABI readable but not JSON
KeyFiles ==
    {ReadableFile(k) : k \in KeyLists}
        \cup {UnusableFile(st) : st \in {"missing", "unreadable"}}
AbiFiles ==
    {ReadableFile(<<>>)} \cup {UnusableFile(st) : st \in {"missing", "invalid"}}

\* the interactive script is given the proxy path at a prompt, which may be
\* left empty; the continuous script always uses DEFAULT_PROXY_FILE
ProxyFiles(s) ==
    {ReadableFile(p) : p \in ProxyLists}
        \cup {UnusableFile(st) : st \in {"missing", "unreadable"}}
        \cup (IF s = "interactive" THEN {UnusableFile("notGiven")} ELSE {})

\* main before it has read its files
InitStartup ==
    /\ script \in MultiWallet
    /\ disk \in [abi : AbiFiles, keys : KeyFiles, proxies : ProxyFiles(script)]
    /\ privateKeys = <<>>
    /\ proxies = <<>>
    /\ config = SourceConfig
    /\ stopAfter = MaxCycles
    /\ chainAvail \in [AccountsOf(disk.keys.lines) -> RewardAmounts]
    /\ mainPc = "boot"
    /\ InitLocals
    /\ NoBatchRun

\* main up to the first cycle: the three files are read in the order ABI,
\* credentials, proxies; a raise goes to main's catch, which ends main
LoadConfig ==
    /\ script \in MultiWallet
    /\ mainPc = "boot"
    /\ LET contractABI == readContractABI(disk.abi)
           keys == readPrivateKeys(disk.keys)
       IN IF contractABI.raised \/ keys.raised
          THEN /\ mainPc' = "error"
               /\ UNCHANGED <<privateKeys, proxies>>
          ELSE /\ mainPc' = "start"
               /\ privateKeys' = keys.value
               /\ proxies' = IF script = "interactive" /\ disk.proxies.status = "notGiven"
                             THEN <<>>
                             ELSE readProxies(disk.proxies)
    /\ UNCHANGED <<script, disk, config, stopAfter, batchVars, chainAvail, shuffledKeys,
                   i, successCount, failCount, skippedCount, cycle,
                   lastRunStats, now, nextRunTime, waitTimeMs, pauseSeconds,
                   confirm, claimIdle, claim_log, claim_error_log, cycObsVars>>

NextStartup ==
    \/ LoadConfig
    \/ StartCycle
    \/ ShuffleKeys
    \/ Confirm
    \/ LoopCall
    \/ ClaimReturned
    \/ PostCheck
    \/ PauseElapsed
    \/ EndCycle
    \/ WaitElapsed
    \/ NewDay
    \/ BeginAttempt
    \/ CheckRewards
    \/ QueryRewards
    \/ GetFeeData
    \/ SubmitClaim
    \/ WaitConfirm
    \/ BackoffElapsed

SpecStartup == InitStartup /\ [][NextStartup]_vars

----------------------------------------------------------------------------
(* The batch-transfer script *)

\* what the batch-transfer script never writes
batchFrame == <<script, disk, config, stopAfter, proxies, chainAvail,
                shuffledKeys, i, successCount, failCount, skippedCount, cycle,
                lastRunStats, now, nextRunTime, waitTimeMs, pauseSeconds, cPc,
                cArgs, retryCount, currentDelay, tx, cResult, claim_log,
                claim_error_log, calls, nReturned, attempts, backoffs, att,
                callObs, cyc, rpcUrl, amountInWei, balance>>

\* recipient files of up to MaxRecipients rows; an address may occur twice
RecipientLists == UNION {[1 .. n -> 1 .. MaxRecipients] : n \in 0 .. MaxRecipients}

\* readPrivateKey: the trimmed content of the file, or a raise when the file
\* cannot be read
readPrivateKey(file) ==
    [raised |-> file.status # "ok",
     value |-> IF Len(file.lines) > 0 THEN file.lines[1] ELSE 0]

\* readWalletAddresses: the addresses of the rows; rejects when the stream
\* fails and when no row holds an address
readWalletAddresses(file) ==
    IF file.status = "ok" /\ Len(file.lines) > 0
    THEN [raised |-> FALSE, value |-> file.lines]
    ELSE [raised |-> TRUE, value |-> <<>>]

\* amountInWei * BigInt(toAddresses.length)
totalRequired == amountInWei * Len(toAddresses)

\* the balance check compared with the amount of one transfer
InsufficientBalance_OneTransfer == balance < amountInWei

\* if (balance < totalRequired)
InsufficientBalance == balance < totalRequired

\* a transfer has ended: its async callback has returned its result
Settled(k) == transfers[k] \in {"success", "failed"}

\* Promise.all(txPromises) resolves: every callback has returned
AllSettled == \A k \in DOMAIN transfers : Settled(k)

\* the hash of the receipt of the transfer to recipient k
TransferHash(k) == <<"tx", k>>

\* what the callback of recipient k returned
ResultOf(k) ==
    IF transfers[k] = "success"
    THEN [success |-> TRUE, toAddress |-> toAddresses[k], txHash |-> TransferHash(k)]
    ELSE [success |-> FALSE, toAddress |-> toAddresses[k], error |-> "error"]

\* the results listed in the order the transfers ended
PromiseAll_CompletionOrder == [k \in 1 .. Len(settled) |-> ResultOf(settled[k])]

\* the value of Promise.all: the callbacks' results in the order of the array
PromiseAll == [k \in 1 .. Len(transfers) |-> ResultOf(k)]

\* results.filter(r => r.success).length and its complement
successful(rs) == Cardinality({k \in DOMAIN rs : rs[k].success})
failed(rs) == Cardinality({k \in DOMAIN rs : ~rs[k].success})

\* the rows of the results CSV
CsvRows(rs) ==
    [k \in 1 .. Len(rs) |->
        [index |-> k, toAddress |-> rs[k].toAddress,
         status |-> IF rs[k].success THEN "success" ELSE "failure",
         hashOrError |-> IF rs[k].success THEN rs[k].txHash ELSE <<rs[k].error>>]]

\* the script started, with what the operator will enter and what the chain
\* holds
InitBatch ==
    /\ script = "batch"
    /\ disk \in [keys : {ReadableFile(<<1>>), UnusableFile("missing")},
                  wallets : {ReadableFile(l) : l \in RecipientLists}
                                \cup {UnusableFile("missing")}]
    /\ rpcUrl \in {"", "rpc"}
    /\ amountInWei \in 0 .. MaxAmount
    /\ balance \in 0 .. (MaxAmount * MaxRecipients)
    /\ privateKeys = <<>>
    /\ proxies = <<>>
    /\ config = SourceConfig
    /\ stopAfter = MaxCycles
    /\ chainAvail = [a \in {} |-> 0]
    /\ mainPc = "start"
    /\ InitLocals

\* main up to the confirmation prompt: the four prompts with their checks,
\* then the key file and the recipient file
BatchPrompts ==
    /\ script = "batch"
    /\ mainPc = "start"
    /\ LET privateKey == readPrivateKey(disk.keys)
           addresses == readWalletAddresses(disk.wallets)
       IN IF rpcUrl = "" \/ amountInWei <= 0 \/ privateKey.raised \/ addresses.raised
          THEN /\ mainPc' = "error"
               /\ UNCHANGED <<privateKeys, toAddresses>>
          ELSE /\ mainPc' = "confirm"
               /\ privateKeys' = <<privateKey.value>>
               /\ toAddresses' = addresses.value
    /\ UNCHANGED <<batchFrame, confirm, provider, transfers, settled, results,
                   resultFile>>

\* the answer to the final prompt; on y batchTransfer is entered and makes
\* its provider and wallet
BatchConfirm ==
    /\ script = "batch"
    /\ mainPc = "confirm"
    /\ \E answer \in Answers :
        /\ confirm' = answer
        /\ IF toLowerCase(answer) # "y"
           THEN mainPc' = "cancelled" /\ UNCHANGED provider
           ELSE mainPc' = "balance" /\ provider' = createProvider(NoProxy)
    /\ UNCHANGED <<batchFrame, privateKeys, toAddresses, transfers, settled,
                   results, resultFile>>

\* await provider.getBalance(fromAddress), then the balance check; a raise
\* of getBalance ("error") and the throw of the check ("insufficient") both
\* end in batchTransfer's catch
GetBalance ==
    /\ script = "batch"
    /\ mainPc = "balance"
    /\ \/ mainPc' = "error"
       \/ mainPc' = IF InsufficientBalance THEN "insufficient" ELSE "fee"
    /\ UNCHANGED <<batchFrame, privateKeys, confirm, provider, toAddresses,
                   transfers, settled, results, resultFile>>

\* the transfers started one at a time: only the first one here
FanOut_Sequential ==
    /\ script = "batch"
    /\ mainPc = "fee"
    /\ \/ mainPc' = "error" /\ UNCHANGED transfers
       \/ /\ mainPc' = "join"
          /\ transfers' = <<"sending">>
    /\ UNCHANGED <<batchFrame, privateKeys, confirm, provider, toAddresses,
                   settled, results, resultFile>>

\* await provider.getFeeData(), then toAddresses.map(async ...): each callback
\* runs up to its first await, the call of wallet.sendTransaction, before the
\* next one starts and before Promise.all is awaited
FanOut ==
    /\ script = "batch"
    /\ mainPc = "fee"
    /\ \/ mainPc' = "error" /\ UNCHANGED transfers
       \/ /\ mainPc' = "join"
          /\ transfers' = [k \in 1 .. Len(toAddresses) |-> "sending"]
    /\ UNCHANGED <<batchFrame, privateKeys, confirm, provider, toAddresses,
                   settled, results, resultFile>>

\* wallet.sendTransaction of one recipient returns the transaction, whose
\* confirmation is then awaited, or raises into the callback's catch
SendSettles ==
    /\ script = "batch"
    /\ mainPc = "join"
    /\ \E k \in DOMAIN transfers :
        /\ transfers[k] = "sending"
        /\ \/ /\ transfers' = [transfers EXCEPT ![k] = "waiting"]
              /\ UNCHANGED settled
           \/ /\ transfers' = [transfers EXCEPT ![k] = "failed"]
              /\ settled' = Append(settled, k)
    /\ UNCHANGED <<batchFrame, mainPc, privateKeys, confirm, provider,
                   toAddresses, results, resultFile>>

\* tx.wait() of one recipient returns the receipt or raises
WaitSettles ==
    /\ script = "batch"
    /\ mainPc = "join"
    /\ \E k \in DOMAIN transfers :
        /\ transfers[k] = "waiting"
        /\ \E outcome \in {"success", "failed"} :
            transfers' = [transfers EXCEPT ![k] = outcome]
        /\ settled' = Append(settled, k)
    /\ UNCHANGED <<batchFrame, mainPc, privateKeys, confirm, provider,
                   toAddresses, results, resultFile>>

\* Promise.all has resolved: the counts are printed and the results file is
\* written
Join ==
    /\ script = "batch"
    /\ mainPc = "join"
    /\ AllSettled
    /\ results' = PromiseAll
    /\ resultFile' = CsvRows(results')
    /\ mainPc' = "done"
    /\ UNCHANGED <<batchFrame, privateKeys, confirm, provider, toAddresses,
                   transfers, settled>>

NextBatch ==
    \/ BatchPrompts
    \/ BatchConfirm
    \/ GetBalance
    \/ FanOut
    \/ SendSettles
    \/ WaitSettles
    \/ Join

SpecBatch == InitBatch /\ [][NextBatch]_vars

----------------------------------------------------------------------------
(* The two scripts that ask before they act *)

\* the interactive claim script once main has read its files
InitInteractive ==
    /\ script = "interactive"
    /\ privateKeys \in KeyLists
    /\ proxies \in ProxyLists
    /\ disk = [abi |-> ReadableFile(<<>>), keys |-> ReadableFile(privateKeys),
               proxies |-> ReadableFile(proxies)]
    /\ config = SourceConfig
    /\ stopAfter = MaxCycles
    /\ chainAvail \in [AccountsOf(privateKeys) -> RewardAmounts]
    /\ mainPc = "start"
    /\ InitLocals
    /\ NoBatchRun

InitPrompted == InitInteractive \/ InitBatch

\* main of the interactive claim script
InteractiveMain ==
    \/ ShuffleKeys
    \/ Confirm
    \/ LoopCall
    \/ ClaimReturned
    \/ PauseElapsed
    \/ EndCycle

\* claimReward of the interactive claim script, whose availability query
\* is made inside CheckRewards
InteractiveClaim ==
    \/ BeginAttempt
    \/ CheckRewards
    \/ GetFeeData
    \/ SubmitClaim
    \/ WaitConfirm
    \/ BackoffElapsed

NextPrompted == InteractiveMain \/ InteractiveClaim \/ NextBatch

SpecPrompted == InitPrompted /\ [][NextPrompted]_vars

----------------------------------------------------------------------------
(* Properties *)

InCall == cPc \notin {"idle"}
Returned == cPc = "returned"
InAttempt == cPc \in {"check", "requery", "fee", "submit", "wait"}
Count(s, x) == Cardinality({k \in DOMAIN s : s[k] = x})

\* C1 as stated: in every claim script a call whose attempts all fail runs
\* the attempt body exactly MAX_RETRIES + 1 times, never more, and then
\* returns false.
C1_RetryBoundReturnsFalse ==
    /\ attempts <= MAX_RETRIES + 1
    /\ (Returned /\ callObs.outcome = "failure") =>
            (attempts = MAX_RETRIES + 1 /\ cResult = "false")

\* C1 amended: the attempt body never runs more than MAX_RETRIES + 1 times;
\* a call whose attempts all fail runs it exactly MAX_RETRIES + 1 times and
\* then ends in failure: it returns false in the two multi-wallet scripts
\* and leaves the loop without a return value in the single-wallet script.
C1_RetryBound ==
    /\ attempts <= MAX_RETRIES + 1
    /\ (InCall /\ ~Returned) => attempts <= retryCount + 1
    /\ (Returned /\ callObs.outcome = "failure") =>
            /\ attempts = MAX_RETRIES + 1
            /\ retryCount = MAX_RETRIES
            /\ cResult = (IF script = "single" THEN "undefined" ELSE "false")
    /\ (Returned /\ callObs.outcome # "failure") =>
            cResult = (IF script = "single" THEN "undefined" ELSE "true")

C1_Witness ==
    /\ script = "continuous"
    /\ Returned
    /\ callObs.outcome = "failure"
    /\ attempts = MAX_RETRIES_CONTINUOUS + 1
    /\ ~callObs.queryOk

\* C2 as stated: in the continuous script, a call in which
\* dailyRewardsAvailable raised every time and no other chain call failed
\* has submitted claimReward and ends in Success.
C2_QueryFailureDoesNotBlock ==
    (script = "continuous" /\ Returned /\ ~callObs.queryOk /\ ~callObs.otherFailed)
        => (callObs.submitted /\ callObs.outcome = "success")

C4_CycleAccounting ==
    (script = "continuous" /\ mainPc = "waiting" /\ cyc.clean) =>
        /\ lastRunStats.successCount = cyc.withReward
        /\ lastRunStats.skippedCount = lastRunStats.totalWallets - cyc.withReward
        /\ lastRunStats.failCount = 0

\* C5 as stated: in the continuous script, after a cycle in which a claim
\* transaction was confirmed the wait before the next cycle is
\* HOURS_TO_WAIT_AFTER_CLAIM hours.
C5_LongWaitAfterConfirmedClaim ==
    (script = "continuous" /\ mainPc = "waiting" /\ cyc.confirmed > 0) =>
        waitTimeMs = HOURS_TO_WAIT_AFTER_CLAIM * MS_PER_HOUR

\* C6: the next run time is now + HOURS_TO_WAIT_AFTER_CLAIM hours when
\* successCount > 0 and now + DAILY_CHECK_INTERVAL hours when it is 0,
\* whatever skippedCount and failCount are.
C6_Scheduling ==
    mainPc = "waiting" =>
        /\ HoursOf(nextRunTime) = HoursOf(now) +
                (IF lastRunStats.successCount > 0
                 THEN HOURS_TO_WAIT_AFTER_CLAIM ELSE DAILY_CHECK_INTERVAL)
        /\ nextRunTime.hour \in 0 .. (HOURS_PER_DAY - 1)

C6_Witness ==
    /\ mainPc = "waiting"
    /\ lastRunStats.successCount = 0
    /\ lastRunStats.skippedCount > 0
    /\ lastRunStats.failCount > 0
    /\ now.hour = HOURS_PER_DAY - 1

\* C7: the shuffled credentials are a permutation of the loaded ones, the
\* k-th claimReward call of a cycle is for the k-th shuffled credential, and
\* a finished cycle has made exactly one call per credential.
C7_OneAttemptPerCredential ==
    script \in MultiWallet =>
        /\ mainPc # "start" =>
                /\ Len(shuffledKeys) = Len(privateKeys)
                /\ \A key \in 1 .. MaxKeys :
                        Count(shuffledKeys, key) = Count(privateKeys, key)
        /\ Len(calls) <= Len(shuffledKeys)
        /\ \A k \in 1 .. Len(calls) : calls[k].privateKey = shuffledKeys[k]
        /\ (mainPc = "waiting" \/ (mainPc = "done" /\ toLowerCase(confirm) = "y")) =>
                Len(calls) = Len(privateKeys)

C7_Witness ==
    /\ script = "continuous"
    /\ mainPc = "waiting"
    /\ Len(privateKeys) = MaxKeys
    /\ shuffledKeys # privateKeys
    /\ Len(calls) = MaxKeys

\* C8: the k-th call of a cycle (0-based) gets proxies[k mod |proxies|], or
\* null when the pool is empty, and every attempt of the call connects
\* through that proxy.
C8_ProxyAssignment ==
    script \in MultiWallet =>
        /\ \A k \in 1 .. Len(calls) :
                calls[k].proxy = (IF Len(proxies) > 0
                                  THEN proxies[((k - 1) % Len(proxies)) + 1]
                                  ELSE NoProxy)
        /\ InAttempt =>
                /\ cArgs.proxy = calls[Len(calls)].proxy
                /\ provider.proxy = cArgs.proxy

C8_Witness ==
    /\ script = "continuous"
    /\ Len(proxies) = 1
    /\ Len(calls) = 2
    /\ InAttempt
    /\ retryCount > 0
    /\ provider.proxy = proxies[1]

\* C9: at most one claimReward call is in progress; a call is started only
\* when every earlier call of the cycle has returned.
C9_StrictlySequential ==
    /\ Len(calls) - nReturned \in {0, 1}
    /\ (InCall /\ ~Returned) => (Len(calls) = nReturned + 1 /\ mainPc = "awaitClaim")
    /\ mainPc \in {"loop", "pause", "postCheck"} => (cPc = "idle" /\ Len(calls) = nReturned)

C9_Witness ==
    /\ script = "interactive"
    /\ Len(calls) = 2
    /\ nReturned = 1
    /\ cPc = "backoff"

\* C10 as stated: in the interactive and single-wallet scripts the duration
\* requested before retry k is exactly RETRY_DELAY * 1.5^(k-1).
C10_BackoffExact ==
    script \in {"interactive", "single"} =>
        \A k \in 1 .. Len(backoffs) :
            backoffs[k] * ESCALATION_DEN ^ (k - 1) = RETRY_DELAY * ESCALATION_NUM ^ (k - 1)

\* C10 amended: one delay is requested before each retry, and the duration
\* before retry k is RETRY_DELAY * 1.5^(k-1) rounded down to whole
\* milliseconds.
C10_BackoffFloored ==
    script \in {"interactive", "single"} =>
        /\ InCall => Len(backoffs) = retryCount
        /\ \A k \in 1 .. Len(backoffs) :
            backoffs[k] = (RETRY_DELAY * ESCALATION_NUM ^ (k - 1)) \div ESCALATION_DEN ^ (k - 1)

C10_Witness ==
    /\ script = "interactive"
    /\ Len(backoffs) = MAX_RETRIES_INTERACTIVE
    /\ backoffs[MAX_RETRIES_INTERACTIVE] = 25312

\* a cycle of a multi-wallet script has run its loop to the end
CycleOver == mainPc = "waiting" \/ (mainPc = "done" /\ toLowerCase(confirm) = "y")

\* C11: in the multi-wallet scripts every call that ended in Failure has
\* added exactly one to failCount once the caller has tallied it, the loop
\* goes on after it, and a cycle with failures in it still ends with one
\* returned call per credential.
C11_FailureIsolation ==
    script \in MultiWallet =>
        /\ failCount = cyc.failures -
                (IF Returned /\ callObs.outcome = "failure" THEN 1 ELSE 0)
        /\ (Returned /\ callObs.outcome = "failure") =>
                (mainPc = "awaitClaim" /\ cResult = "false")
        /\ CycleOver =>
                /\ Len(calls) = Len(privateKeys)
                /\ nReturned = Len(calls)
                /\ failCount = cyc.failures
        /\ (script = "continuous" /\ mainPc = "waiting") =>
                lastRunStats.failCount = cyc.failures

C11_Witness ==
    /\ script = "continuous"
    /\ mainPc = "awaitClaim"
    /\ Len(calls) = 2
    /\ failCount = 1
    /\ cyc.failures = 1
    /\ InAttempt

\* the lines the current call has appended to claim_error_log.txt
ErrorLinesOfCall ==
    SubSeq(claim_error_log, callObs.logsAtStart[2] + 1, Len(claim_error_log))

\* C12: a call has appended one line to the error log exactly when it has
\* returned Failure, and none otherwise (while it runs, retries included, or
\* when it returned Success or through the skip); the line was written in
\* the attempt that exhausted the retries and records retryCount =
\* MAX_RETRIES.
C12_ErrorLog ==
    InCall =>
        /\ Len(ErrorLinesOfCall) =
                (IF Returned /\ callObs.outcome = "failure" THEN 1 ELSE 0)
        /\ (script \in MultiWallet /\ Returned) =>
                (Len(ErrorLinesOfCall) = 1 <=> cResult = "false")
        /\ Len(ErrorLinesOfCall) = 1 =>
                /\ ErrorLinesOfCall[1].retryCount = MAX_RETRIES
                /\ ErrorLinesOfCall[1].walletIndex = cArgs.walletIndex
                /\ attempts = MAX_RETRIES + 1

C12_Witness ==
    /\ script = "interactive"
    /\ Returned
    /\ callObs.outcome = "failure"
    /\ callObs.submitted
    /\ Len(claim_error_log) = 2
    /\ claim_error_log[2].retryCount = MAX_RETRIES_INTERACTIVE

\* the lines the current call has appended to claim_log.txt
SuccessLinesOfCall ==
    SubSeq(claim_log, callObs.logsAtStart[1] + 1, Len(claim_log))

\* C13: a call has appended one line to the success log exactly when it
\* has returned Success after its transaction was confirmed; the line
\* carries the hash of that transaction and the account it was sent from.
\* A call that is still running (its transaction unconfirmed, or being
\* retried) or that returned through the skip or with Failure has appended
\* none.
C13_SuccessLog ==
    InCall =>
        /\ Len(SuccessLinesOfCall) =
                (IF Returned /\ callObs.outcome = "success" THEN 1 ELSE 0)
        /\ Len(SuccessLinesOfCall) = 1 =>
                /\ SuccessLinesOfCall[1].hash = TxHash(walletAddress)
                /\ SuccessLinesOfCall[1].address = walletAddress
                /\ SuccessLinesOfCall[1].walletIndex = cArgs.walletIndex
                /\ callObs.submitted
                /\ chainAvail[walletAddress] = 0
                /\ script \in MultiWallet => cResult = "true"
        /\ (Returned /\ callObs.outcome \in {"skipped", "failure"}) =>
                Len(claim_log) = callObs.logsAtStart[1]

C13_Witness ==
    /\ script = "continuous"
    /\ Returned
    /\ callObs.outcome = "success"
    /\ retryCount > 0
    /\ Len(calls) = 2
    /\ Len(claim_log) = 2
    /\ claim_log[1].hash # claim_log[2].hash

\* the lines the current cycle has appended to claim_log.txt
SuccessLinesOfCycle == Len(claim_log) - cyc.logsAtStart[1]

\* C14 as stated: every call that ended in Success or through the
\* already-claimed skip has appended one line to the success log, so the
\* lines a finished cycle has added number its successes plus its skips.
C14_SuccessLogCoverage ==
    (script \in MultiWallet /\ CycleOver) =>
        SuccessLinesOfCycle = cyc.confirmed + cyc.skips

\* C14 amended: only the calls that ended in Success after a confirmed
\* transaction append to the success log, one line each; the lines a cycle
\* has added number its confirmed claims, and a finished cycle has added
\* one line per credential that was neither skipped nor failed.
C14_SuccessLogCountsConfirmed ==
    (script \in MultiWallet /\ mainPc \notin {"start", "confirm"}) =>
        /\ SuccessLinesOfCycle = cyc.confirmed
        /\ nReturned = cyc.confirmed + cyc.skips + cyc.failures
        /\ CycleOver =>
                SuccessLinesOfCycle = Len(privateKeys) - cyc.skips - cyc.failures

C14_Witness ==
    /\ script = "continuous"
    /\ mainPc = "waiting"
    /\ cyc.clean
    /\ cyc.skips = 1
    /\ cyc.confirmed = 1
    /\ Len(claim_log) = 1

\* C15: the continuous script never ends by itself, and while the operator
\* lets it run every started cycle reaches its end whatever its attempts
\* did, every finished cycle is followed by the wait, and every wait by the
\* start of another cycle.
C15_NoTerminalState ==
    /\ [](mainPc \in {"start", "loop", "awaitClaim", "postCheck", "pause", "waiting"})
    /\ (mainPc = "loop") ~> (mainPc = "waiting")
    /\ (mainPc = "waiting") ~> (mainPc = "start")
    /\ (mainPc = "start" /\ cycle < stopAfter) ~> (mainPc = "loop")
    /\ (mainPc = "waiting" /\ cycle < stopAfter) ~> (mainPc = "awaitClaim" \/ Len(privateKeys) = 0)

\* C15 witness: the second cycle is calling claimReward after a first cycle
\* whose only attempt failed.
C15_Witness ==
    /\ script = "continuous"
    /\ cycle = 1
    /\ mainPc = "awaitClaim"
    /\ lastRunStats.failCount = 1
    /\ Len(claim_error_log) = 1

\* C16 as stated: in the continuous script the stats of a finished cycle count
\* every call that returned through the already-claimed skip in skippedCount,
\* whatever the availability query made after the call gave, and a cycle in
\* which no claim transaction was submitted reports successCount = 0.
C16_SkippedTalliedSeparately ==
    (script = "continuous" /\ mainPc = "waiting") =>
        /\ lastRunStats.skippedCount >= cyc.skips
        /\ (~cyc.submitted => lastRunStats.successCount = 0)

\* C17: in each multi-wallet script, when the ABI file or the credential file
\* cannot be loaded main ends in its error branch having made no claimReward
\* call, no provider and no log append; a proxy file that is missing,
\* unreadable or not given never leads there: the pool is empty and every
\* call is made without a proxy.
C17_ConfigErrorsFatal ==
    LET fatal == disk.abi.status # "ok" \/ disk.keys.status # "ok"
    IN script \in MultiWallet =>
        /\ fatal => mainPc \in {"boot", "error"}
        /\ mainPc = "error" => fatal
        /\ mainPc \in {"boot", "error"} =>
            /\ calls = <<>> /\ cPc = "idle" /\ attempts = 0
            /\ provider = NoProvider
            /\ claim_log = <<>> /\ claim_error_log = <<>>
            /\ cycle = 0
        /\ (mainPc \notin {"boot", "error"} /\ disk.proxies.status # "ok") =>
            /\ privateKeys = disk.keys.lines
            /\ proxies = <<>>
            /\ \A k \in DOMAIN calls : calls[k].proxy = NoProxy
            /\ provider # NoProvider => provider.proxy = NoProxy

\* C17 witness: main has ended in its error branch over a missing credential
\* file, the ABI and the proxy file being in order.
C17_Witness ==
    /\ mainPc = "error"
    /\ disk.abi.status = "ok"
    /\ disk.keys.status = "missing"
    /\ disk.proxies.status = "ok" /\ Len(disk.proxies.lines) > 0

\* C18: in a cycle of a multi-wallet script over n credentials a pause is
\* taken after each claimReward call but the last, so n - 1 in all and none
\* when n = 1; its length is a whole number of seconds from MIN_PAUSE to
\* MAX_PAUSE, and call k + 1 is started only when k pauses have elapsed.
C18_InterAttemptPause ==
    LET n == Len(shuffledKeys)
        last == IF n = 0 THEN 0 ELSE n - 1
    IN script \in MultiWallet =>
        /\ mainPc = "pause" =>
            /\ pauseSeconds \in MIN_PAUSE .. MAX_PAUSE
            /\ i < n - 1
            /\ cPc = "idle"
            /\ Len(calls) = i + 1 /\ nReturned = i + 1
            /\ cyc.pauses = i
        /\ mainPc # "pause" => pauseSeconds = 0
        /\ mainPc \in {"awaitClaim", "postCheck"} => cyc.pauses = Len(calls) - 1
        /\ mainPc = "loop" => cyc.pauses = (IF i < n THEN i ELSE last)
        /\ CycleOver => cyc.pauses = last

\* C18 witness: the interactive script pausing for MAX_PAUSE seconds after
\* the first of two wallets.
C18_Witness ==
    /\ script = "interactive"
    /\ mainPc = "pause"
    /\ Len(shuffledKeys) = 2 /\ i = 0
    /\ pauseSeconds = MAX_PAUSE

\* C19: a cycle of a multi-wallet script that starts when every account has
\* nothing left to claim (the cycle after one that claimed everything, or the
\* first cycle of a restarted process), and whose availability queries all
\* answer, submits no claim transaction and appends nothing to either log.
C19_RerunIdempotence ==
    (script \in MultiWallet /\ cyc.zeroAtStart /\ cyc.clean) =>
        /\ ~cyc.submitted /\ cyc.confirmed = 0 /\ cyc.failures = 0
        /\ cPc \notin {"submit", "wait"}
        /\ cyc.skips = nReturned
        /\ <<Len(claim_log), Len(claim_error_log)>> = cyc.logsAtStart

\* C19 witness: the continuous script has finished a second cycle in which
\* the credential it claimed for in the first cycle was skipped.
C19_Witness ==
    /\ script = "continuous"
    /\ cycle = 2 /\ mainPc = "waiting"
    /\ cyc.zeroAtStart /\ cyc.clean
    /\ cyc.skips = 1
    /\ Len(claim_log) = 1 /\ cyc.logsAtStart = <<1, 0>>

\* base to the power of a natural exponent
RECURSIVE Pow(_, _)
Pow(base, e) == IF e = 0 THEN 1 ELSE base * Pow(base, e - 1)

\* C20 as stated: in the continuous script configured with RETRY_DELAY = d > 0
\* and ESCALATION_FACTOR = f, the wait before retry k of a call is
\* d * f^(k-1): escalated when f > 1, the constant d when f = 1.
C20_BackoffIsConfiguration ==
    (script = "continuous" /\ config.RETRY_DELAY > 0) =>
        \A k \in DOMAIN backoffs :
            backoffs[k] = config.RETRY_DELAY * Pow(config.ESCALATION_FACTOR, k - 1)

\* C21: in the interactive and the single-wallet script a step in which the
\* availability query of an attempt raises takes the same attempt on to the
\* fee-data step: no catch of the retry loop is entered, so retryCount, the
\* delay and the waits taken so far are unchanged and nothing is logged.
C21_QueryFailureCaughtInAttempt ==
    [][(script \in {"interactive", "single"} /\ cPc = "check" /\ att'.query = "raised") =>
            /\ cPc' = "fee"
            /\ UNCHANGED <<retryCount, currentDelay, backoffs, attempts,
                           claim_error_log, nReturned>>]_vars

\* C21 witness: the single-wallet script awaits the confirmation of a claim
\* submitted in its first attempt, whose availability query raised.
C21_Witness ==
    /\ script = "single"
    /\ cPc = "wait"
    /\ att.query = "raised" /\ att.submitted
    /\ attempts = 1 /\ retryCount = 0 /\ backoffs = <<>>

\* C22 as stated: in the single-wallet script an attempt whose availability
\* query returned zero goes no further: no fee data is fetched and no
\* claimReward transaction is submitted.
C22_SingleWalletSkipsOnZero ==
    (script = "single" /\ att.query = "zero") =>
        /\ ~att.submitted
        /\ cPc \notin {"fee", "submit", "wait"}

\* the three counters of runClaimCycle added up
TallySum == successCount + skippedCount + failCount

\* runClaimCycle is inside its loop
InCycleLoop == mainPc \in {"loop", "awaitClaim", "postCheck", "pause"}

\* claimReward has returned and its tally is still to come: the caller has
\* not resumed yet, or awaits hasClaimedToday
TallyPending == mainPc = "postCheck" \/ (mainPc = "awaitClaim" /\ Returned)

\* C23 as stated: at every point of runClaimCycle, once it has resumed after
\* a claimReward call, the three counters add up to the number of calls that
\* have returned, and the returned stats add up to totalWallets, the number
\* of credentials.
C23_StatsConservation ==
    script = "continuous" =>
        /\ mainPc \in {"loop", "postCheck", "pause"} => TallySum = nReturned
        /\ mainPc = "waiting" =>
            /\ lastRunStats.successCount + lastRunStats.skippedCount
                    + lastRunStats.failCount = lastRunStats.totalWallets
            /\ lastRunStats.totalWallets = Len(privateKeys)

\* C23 amended: the counters add up to the number of returned calls at the
\* head of every iteration and during the pause, and are one behind while the
\* tally of the call that has just returned is pending; every step adds one
\* to at most one counter; the returned stats are the counters and add up to
\* totalWallets, the number of credentials.
C23_StatsConservationAtTally ==
    /\ [](script = "continuous" =>
            /\ InCycleLoop =>
                TallySum = (IF TallyPending THEN nReturned - 1 ELSE nReturned)
            /\ mainPc = "waiting" =>
                /\ lastRunStats.successCount = successCount
                /\ lastRunStats.skippedCount = skippedCount
                /\ lastRunStats.failCount = failCount
                /\ TallySum = lastRunStats.totalWallets
                /\ lastRunStats.totalWallets = Len(privateKeys))
    /\ [][(script = "continuous" /\ InCycleLoop) =>
            /\ successCount' - successCount \in {0, 1}
            /\ skippedCount' - skippedCount \in {0, 1}
            /\ failCount' - failCount \in {0, 1}
            /\ TallySum' - TallySum \in {0, 1}
            /\ TallySum' = TallySum + 1 <=> (TallyPending /\ ~TallyPending')]_vars

\* C23 witness: a cycle over two credentials has returned its stats, one
\* success and one failure.
C23_Witness ==
    /\ script = "continuous"
    /\ mainPc = "waiting"
    /\ lastRunStats.totalWallets = 2
    /\ lastRunStats.successCount = 1
    /\ lastRunStats.failCount = 1

C28_CredentialsImmutable ==
    /\ [](script = "continuous" =>
            /\ privateKeys = readPrivateKeys(disk.keys).value
            /\ proxies = readProxies(disk.proxies)
            /\ InCycleLoop =>
                /\ Len(shuffledKeys) = Len(privateKeys)
                /\ \A key \in 1 .. MaxKeys :
                    Count(shuffledKeys, key) = Count(privateKeys, key))
    /\ [][script = "continuous" => UNCHANGED <<privateKeys, proxies>>]_vars

\* C28 witness: a cycle that worked through two credentials in the order
\* opposite to the file's has returned.
C28_Witness ==
    /\ script = "continuous"
    /\ mainPc = "waiting"
    /\ Len(privateKeys) = 2
    /\ shuffledKeys = <<privateKeys[2], privateKeys[1]>>
    /\ shuffledKeys # privateKeys

\* the transfers whose sendTransaction has been called
Initiated == DOMAIN transfers

\* C25: batchTransfer calls sendTransaction for every recipient before any
\* transfer is awaited or has ended, and the results and the results file
\* exist only once every transfer has succeeded or failed
C25_FanOutThenJoin ==
    script = "batch" =>
        /\ (transfers # <<>>) => (Initiated = DOMAIN toAddresses)
        /\ (\E k \in DOMAIN transfers : transfers[k] # "sending")
              => (\A k \in DOMAIN toAddresses : k \in Initiated)
        /\ (results # <<>> \/ resultFile # <<>>)
              => /\ mainPc = "done"
                 /\ Initiated = DOMAIN toAddresses
                 /\ AllSettled
                 /\ Len(settled) = Len(toAddresses)

\* C25 witness: two transfers, the second ended before the first, and the
\* results file written after both
C25_Witness ==
    /\ script = "batch"
    /\ mainPc = "done"
    /\ settled = <<2, 1>>
    /\ Len(resultFile) = 2

\* the entry of recipient k is the outcome of the transfer to recipient k
EntryMatches(k) ==
    /\ results[k].toAddress = toAddresses[k]
    /\ results[k].success = (transfers[k] = "success")
    /\ IF results[k].success
       THEN DOMAIN results[k] = {"success", "toAddress", "txHash"}
            /\ results[k].txHash = TransferHash(k)
       ELSE DOMAIN results[k] = {"success", "toAddress", "error"}

\* the end of one transfer changes the state of no other transfer
EndsAlone ==
    (DOMAIN transfers' = DOMAIN transfers) =>
        \A k \in DOMAIN transfers :
            (transfers'[k] # transfers[k]) =>
                \A j \in DOMAIN transfers \ {k} : transfers'[j] = transfers[j]

\* C26: whatever the order in which the transfers end, the results hold one
\* entry per recipient in the order of the recipient list, each a success
\* with its hash or a failure with its error, the two counts add up to the
\* number of recipients, the results file lists the same rows, and the end of
\* one transfer (a failure included) leaves every other transfer as it was
C26_ResultIntegrity ==
    /\ [](script = "batch" /\ mainPc = "done" =>
            /\ Len(results) = Len(toAddresses)
            /\ \A k \in DOMAIN results : EntryMatches(k)
            /\ successful(results) + failed(results) = Len(toAddresses)
            /\ Len(resultFile) = Len(toAddresses)
            /\ \A k \in DOMAIN resultFile :
                   /\ resultFile[k].index = k
                   /\ resultFile[k].toAddress = toAddresses[k]
                   /\ (resultFile[k].status = "success") = results[k].success)
    /\ [][script = "batch" => EndsAlone]_vars

\* C26 witness: the transfer to the second recipient succeeded first, the
\* transfer to the first then failed, and the results are in input order
C26_Witness ==
    /\ script = "batch"
    /\ mainPc = "done"
    /\ settled = <<2, 1>>
    /\ toAddresses[1] # toAddresses[2]
    /\ ~results[1].success
    /\ results[2].success
    /\ successful(results) = 1
    /\ failed(results) = 1

\* batchTransfer was entered and has returned
BatchTransferEnded ==
    /\ script = "batch"
    /\ provider # NoProvider
    /\ mainPc \in {"insufficient", "error", "done"}

\* C27 as stated: after batchTransfer, a balance below amount * recipients
\* means no transaction and no results file, and any other balance means a
\* transaction submitted for every recipient
C27_PreCheck ==
    BatchTransferEnded =>
        IF balance < totalRequired
        THEN transfers = <<>> /\ resultFile = <<>>
        ELSE Initiated = DOMAIN toAddresses

\* C27 amended: a balance below amount * recipients means no transaction and
\* no results file at any time; the check throws exactly when the balance it
\* read is below that total; and when the balance is at least the total, the
\* only way to end without a transaction for every recipient is a raise of
\* getBalance or getFeeData
C27_PreCheckGivenReads ==
    /\ [](script = "batch" =>
            /\ (balance < totalRequired)
                  => (transfers = <<>> /\ results = <<>> /\ resultFile = <<>>)
            /\ (mainPc = "insufficient") => (balance < totalRequired)
            /\ (mainPc \in {"fee", "join", "done"}) => (balance >= totalRequired)
            /\ (mainPc \in {"join", "done"}) => (Initiated = DOMAIN toAddresses)
            /\ (BatchTransferEnded /\ balance >= totalRequired
                   /\ Initiated # DOMAIN toAddresses) => (mainPc = "error"))
    /\ [][(script = "batch" /\ mainPc = "balance" /\ mainPc' # "error")
            => (mainPc' = "insufficient") = (balance < totalRequired)]_vars
    /\ [][(script = "batch" /\ mainPc = "fee" /\ mainPc' # "error")
            => (Initiated' = DOMAIN toAddresses)]_vars

\* C27 witness: a balance of exactly amount * recipients, nothing left for
\* gas, passed the check and a transaction was submitted for both recipients
C27_Witness ==
    /\ script = "batch"
    /\ mainPc = "join"
    /\ Len(toAddresses) = 2
    /\ balance = totalRequired
    /\ Initiated = {1, 2}

\* the answers that read y once lowered
Yes == {"y", "Y"}

\* nothing has touched the chain or the disk: no provider, no call of
\* claimReward, no attempt, no transfer, no log line and no results file
NothingDone ==
    /\ provider = NoProvider
    /\ calls = <<>>
    /\ attempts = 0
    /\ tx = NULL
    /\ transfers = <<>>
    /\ claim_log = <<>>
    /\ claim_error_log = <<>>
    /\ results = <<>>
    /\ resultFile = <<>>

\* C29: in the interactive claim script and in the batch-transfer script,
\* as long as the final prompt has not been answered y or Y nothing is
\* connected, attempted, transferred or written; an answer other than y or Y
\* ends the run, and y and Y both let it proceed
C29_ConfirmationGate ==
    /\ []((confirm \notin Yes) => NothingDone)
    /\ []((confirm \notin Yes \cup {NULL}) => (mainPc \in {"done", "cancelled"}))
    /\ [][(confirm = NULL /\ confirm' \in Yes) => (mainPc' \in {"loop", "balance"})]_vars
    /\ [][(confirm # NULL) => (confirm' = confirm)]_vars

\* C29 witness: the interactive run declined at the prompt, ended with
\* nothing done
C29_Witness ==
    /\ script = "interactive"
    /\ confirm = "n"
    /\ mainPc = "done"
    /\ shuffledKeys # <<>>
    /\ NothingDone

============================================================================
